---- MODULE Spec2Model ----
(***************************************************************************)
(* A model of the GraphQL mutation interceptor that forwards mutations of  *)
(* the Apollo router to KurrentDB:                                         *)
(*   src/src/plugins/mutation_plugin.rs     (extraction, correlation, the  *)
(*                                           supergraph_service layers)    *)
(*   src/src/plugins/kurrent_mapper/mapper.rs  (MutationCall, the context  *)
(*                                           serialisation, the event sink)*)
(***************************************************************************)
EXTENDS Naturals, Sequences, FiniteSets, TLC

VARIABLES
    query,            \* gql_req.query: Option of the parsed operation document
    variables,        \* gql_req.variables: the resolved-variables map
    pc,               \* position of the request on the path through the layers
    calls,            \* map_request's local `calls` (result of extract_mutations)
    context,          \* req.context entry "pending_mutations": Option of the stored JSON
    pending_calls,    \* the Option<Vec<MutationCall>> captured for the response future
    upstream,         \* chunks the downstream response stream has produced
    delivered,        \* chunks the mapped stream has handed to the caller
    tasks,            \* the detached tasks spawned by persist_mutations
    store,            \* events the event store has accepted, in order of acceptance
    response_data,    \* enrich_mutations_with_response: the result payload given
    enriched_calls    \* enrich_mutations_with_response: the list returned

vars == <<query, variables, pc, calls, context, pending_calls, upstream,
          delivered, tasks, store, response_data,
          enriched_calls>>

----------------------------------------------------------------------------
(* Bounds of the model.                                                    *)

MaxArgs == 2        \* arguments written on one field
MaxSel == 2         \* selections written in one operation's selection set
MaxChunks == 2      \* chunks one response stream produces
MaxMembers == 2     \* members written in one list or object value

----------------------------------------------------------------------------
(* Option<T>, sequences, and insertion-ordered maps.                       *)

None == [some |-> FALSE]
Some(x) == [some |-> TRUE, v |-> x]
UnwrapOr(o, d) == IF o.some THEN o.v ELSE d

SeqUpTo(S, n) == UNION {[1..k -> S] : k \in 0..n}

Range(s) == {s[i] : i \in 1..Len(s)}

\* serde_json::Map / serde_json_bytes::Map as built with apollo_router (the
\* router enables the preserve_order feature): a sequence of entries with
\* unique keys, in order of first insertion.
MapHas(m, key) == \E i \in 1..Len(m) : m[i].k = key

MapGet(m, key) ==
    IF MapHas(m, key)
    THEN Some(m[CHOOSE i \in 1..Len(m) : m[i].k = key].v)
    ELSE None

\* Map::insert: an existing key keeps its place and takes the new value.
MapInsert(m, key, val) ==
    IF MapHas(m, key)
    THEN [i \in 1..Len(m) |-> IF m[i].k = key THEN [k |-> key, v |-> val] ELSE m[i]]
    ELSE Append(m, [k |-> key, v |-> val])

----------------------------------------------------------------------------
(* serde_json::Value.                                                      *)

JNull == [t |-> "null"]
JStr(s) == [t |-> "str", s |-> s]
JNum(n) == [t |-> "num", n |-> n]       \* n: the numeral's text
JBool(b) == [t |-> "bool", b |-> b]     \* b: "true" or "false"
JArr(a) == [t |-> "arr", a |-> a]       \* a: sequence of values
JObj(m) == [t |-> "obj", o |-> m]       \* m: insertion-ordered map

\* Value::get(&str): the member of an object, None for anything else.
JsonGet(value, key) == IF value.t = "obj" THEN MapGet(value.o, key) ELSE None

\* Value::as_str
JsonAsStr(value) == IF value.t = "str" THEN Some(value.s) ELSE None

----------------------------------------------------------------------------
(* apollo_parser::cst::Value, as the parser hands it over.                 *)

AstString(text, block) == [node |-> "StringValue", text |-> text, block |-> block]
AstInt(text) == [node |-> "IntValue", int |-> text]
AstFloat(text) == [node |-> "FloatValue", float |-> text]
AstBoolean(text) == [node |-> "BooleanValue", bool |-> text]
AstNull == [node |-> "NullValue"]
AstEnum(text) == [node |-> "EnumValue", enum |-> text]
AstVariable(name) == [node |-> "Variable", var |-> name]     \* name: Option
AstList(values) == [node |-> "ListValue", values |-> values]
AstObject(fields) == [node |-> "ObjectValue", fields |-> fields] \* <<[name, value]>>, both Option

\* serde_json::from_str on the token's source text.  A quoted string is a
\* JSON string; a block string """...""" is not JSON (the text after the
\* leading "" is trailing input), so from_str fails on it.
FromStr(node) ==
    CASE node.node = "StringValue" ->
            IF node.block THEN None ELSE Some(JStr(node.text))
      [] node.node = "IntValue" -> Some(JNum(node.int))
      [] node.node = "FloatValue" -> Some(JNum(node.float))
      [] node.node = "BooleanValue" -> Some(JBool(node.bool))

\* serde_json::to_value(serde_json_bytes::Value): the same JSON tree.
ToValue(v) == v

RECURSIVE ast_value_to_json(_, _)
RECURSIVE ResolveList(_, _, _)
RECURSIVE ResolveObject(_, _, _, _)

RECURSIVE ResolveListDropping(_, _, _)

\* ResolveList that leaves out the elements that do not resolve.
ResolveListDropping(values, vs, i) ==
    IF i > Len(values) THEN <<>>
    ELSE (IF ast_value_to_json(values[i], vs).some
          THEN <<ast_value_to_json(values[i], vs).v>> ELSE <<>>)
            \o ResolveListDropping(values, vs, i + 1)

\* ListValue arm: every element is pushed, None becoming null.
ResolveList(values, vs, i) ==
    IF i > Len(values) THEN <<>>
    ELSE <<UnwrapOr(ast_value_to_json(values[i], vs), JNull)>>
            \o ResolveList(values, vs, i + 1)

\* ObjectValue arm: `?` on a missing name or value leaves the whole object
\* unresolved; otherwise each field is inserted into the map.
ResolveObject(fields, vs, i, map) ==
    IF i > Len(fields) THEN Some(JObj(map))
    ELSE IF ~fields[i].name.some \/ ~fields[i].value.some THEN None
    ELSE ResolveObject(fields, vs, i + 1,
            MapInsert(map, fields[i].name.v,
                      UnwrapOr(ast_value_to_json(fields[i].value.v, vs), JNull)))

ast_value_to_json(value, vs) ==
    CASE value.node \in {"StringValue", "IntValue", "FloatValue", "BooleanValue"} ->
            FromStr(value)
      [] value.node = "NullValue" -> Some(JNull)
      [] value.node = "EnumValue" -> Some(JStr(value.enum))
      [] value.node = "Variable" ->
            IF ~value.var.some THEN None
            ELSE IF ~MapHas(vs, value.var.v) THEN None
            ELSE Some(ToValue(MapGet(vs, value.var.v).v))
      [] value.node = "ListValue" -> Some(JArr(ResolveList(value.values, vs, 1)))
      [] value.node = "ObjectValue" -> ResolveObject(value.fields, vs, 1, <<>>)

----------------------------------------------------------------------------
(* MutationArg, MutationCall and the extractor.                            *)

MutationArg(name, value) == [name |-> name, value |-> value]

MutationCall(operation_name, field_name, loan_id, alias, arguments, selected_fields) ==
    [operation_name |-> operation_name, field_name |-> field_name,
     loan_id |-> loan_id, alias |-> alias, arguments |-> arguments,
     selected_fields |-> selected_fields]

\* One argument of collect_args' loop.
CollectArg(a, vs) ==
    MutationArg(UnwrapOr(a.name, ""),
                IF a.value.some
                THEN UnwrapOr(ast_value_to_json(a.value.v, vs), JNull)
                ELSE JNull)

\* collect_args that keeps only the arguments whose value resolves.
CollectArgsResolvedOnly(field, vs) ==
    LET resolves(a) == a.value.some /\ ast_value_to_json(a.value.v, vs).some
        kept == SelectSeq(field.arguments, resolves)
    IN  [i \in 1..Len(kept) |-> CollectArg(kept[i], vs)]

collect_args(field, vs) ==
    [i \in 1..Len(field.arguments) |-> CollectArg(field.arguments[i], vs)]

\* The "loanId" member of any argument named "input" that holds one as a
\* string, instead of that of the first argument of that name.
ExtractLoanIdFromAnyInput(arguments) ==
    LET holders == {i \in 1..Len(arguments) :
                      /\ arguments[i].name = "input"
                      /\ JsonGet(arguments[i].value, "loanId").some
                      /\ JsonAsStr(JsonGet(arguments[i].value, "loanId").v).some}
    IN  IF holders = {} THEN None
        ELSE LET i == CHOOSE h \in holders : TRUE
             IN  JsonAsStr(JsonGet(arguments[i].value, "loanId").v)

\* The first argument named "input"; its "loanId" member when that is a string.
extract_loan_id_from_args(arguments) ==
    IF \E i \in 1..Len(arguments) : arguments[i].name = "input"
    THEN LET first == CHOOSE i \in 1..Len(arguments) :
                        /\ arguments[i].name = "input"
                        /\ \A j \in 1..(i - 1) : arguments[j].name # "input"
             member == JsonGet(arguments[first].value, "loanId")
         IN  IF member.some THEN JsonAsStr(member.v) ELSE None
    ELSE None

\* The name a child field answers under: its alias, else its name; a child
\* with neither is left out.
ResponseFieldName(sel) ==
    IF sel.alias.some THEN sel.alias ELSE sel.name

RECURSIVE CollectNames(_, _)
CollectNames(selections, i) ==
    IF i > Len(selections) THEN <<>>
    ELSE (IF selections[i].kind = "Field" /\ ResponseFieldName(selections[i]).some
          THEN <<ResponseFieldName(selections[i]).v>> ELSE <<>>)
         \o CollectNames(selections, i + 1)

collect_top_level_response_field_names(selection_set) ==
    IF selection_set.some THEN CollectNames(selection_set.v, 1) ELSE <<>>

\* CallOfField with the response key taken for the field name.
CallOfFieldKeyAsName(op_name, field, vs) ==
    LET arguments == collect_args(field, vs)
    IN  MutationCall(op_name,
                     IF field.alias.some THEN field.alias.v ELSE UnwrapOr(field.name, ""),
                     extract_loan_id_from_args(arguments), field.alias,
                     arguments,
                     collect_top_level_response_field_names(field.selection_set))

\* CallOfField that leaves loan_id to the correlation.
CallOfFieldWithoutLoanId(op_name, field, vs) ==
    MutationCall(op_name, UnwrapOr(field.name, ""), None, field.alias,
                 collect_args(field, vs),
                 collect_top_level_response_field_names(field.selection_set))

\* The MutationCall pushed for one Selection::Field of a mutation.
CallOfField(op_name, field, vs) ==
    LET arguments == collect_args(field, vs)
    IN  MutationCall(op_name, UnwrapOr(field.name, ""),
                     extract_loan_id_from_args(arguments), field.alias,
                     arguments,
                     collect_top_level_response_field_names(field.selection_set))

RECURSIVE CallsOfSelections(_, _, _, _)
CallsOfSelections(op_name, selections, vs, i) ==
    IF i > Len(selections) THEN <<>>
    ELSE (IF selections[i].kind = "Field"
          THEN <<CallOfField(op_name, selections[i], vs)>> ELSE <<>>)
         \o CallsOfSelections(op_name, selections, vs, i + 1)

\* IsMutation without the test of the operation type.
IsMutationAnyOperation(def) == def.kind = "OperationDefinition"

\* Whether the definition is an operation carrying the `mutation` token.
IsMutation(def) == def.kind = "OperationDefinition" /\ def.operation_type = "mutation"

CallsOfDefinition(def, vs) ==
    IF IsMutation(def) /\ def.selection_set.some
    THEN CallsOfSelections(def.name, def.selection_set.v, vs, 1)
    ELSE <<>>

RECURSIVE CallsOfDefinitions(_, _, _)
CallsOfDefinitions(definitions, vs, i) ==
    IF i > Len(definitions) THEN <<>>
    ELSE CallsOfDefinition(definitions[i], vs)
         \o CallsOfDefinitions(definitions, vs, i + 1)

extract_mutations(doc, vs) == CallsOfDefinitions(doc, vs, 1)

----------------------------------------------------------------------------
(* The Response Correlator.                                                *)

\* ResponseKey that is the field name also for an aliased call.
ResponseKeyFieldName(call) == call.field_name

\* The key a call's result is looked up under.
ResponseKey(call) == IF call.alias.some THEN call.alias.v ELSE call.field_name

\* EnrichCall attaching responseData (null) also when no key matches.
EnrichCallAlways(call, data_json) ==
    LET response_value == JsonGet(data_json, ResponseKey(call))
    IN  IF call.field_name = "recordLoanRequested"
        THEN IF response_value.some /\ JsonAsStr(response_value.v).some
             THEN [call EXCEPT !.loan_id = JsonAsStr(response_value.v)]
             ELSE call
        ELSE [call EXCEPT !.arguments =
                Append(@, MutationArg("responseData", UnwrapOr(response_value, JNull)))]

\* EnrichCall keeping a loan_id the call already has.
EnrichCallKeepInputId(call, data_json) ==
    LET response_value == JsonGet(data_json, ResponseKey(call))
    IN  IF ~response_value.some THEN call
        ELSE IF call.field_name = "recordLoanRequested"
        THEN IF JsonAsStr(response_value.v).some /\ ~call.loan_id.some
             THEN [call EXCEPT !.loan_id = JsonAsStr(response_value.v)]
             ELSE call
        ELSE [call EXCEPT !.arguments =
                Append(@, MutationArg("responseData", response_value.v))]

\* One iteration of enrich_mutations_with_response's loop over calls.
\* EnrichCall that puts the responseData argument in front of the others.
EnrichCallPrepending(call, data_json) ==
    LET response_value == JsonGet(data_json, ResponseKey(call))
    IN  IF ~response_value.some THEN call
        ELSE IF call.field_name = "recordLoanRequested"
        THEN IF JsonAsStr(response_value.v).some
             THEN [call EXCEPT !.loan_id = JsonAsStr(response_value.v)]
             ELSE call
        ELSE [call EXCEPT !.arguments =
                <<MutationArg("responseData", response_value.v)>> \o @]

EnrichCall(call, data_json) ==
    LET response_value == JsonGet(data_json, ResponseKey(call))
    IN  IF ~response_value.some THEN call
        ELSE IF call.field_name = "recordLoanRequested"
        THEN IF JsonAsStr(response_value.v).some
             THEN [call EXCEPT !.loan_id = JsonAsStr(response_value.v)]
             ELSE call
        ELSE [call EXCEPT !.arguments =
                Append(@, MutationArg("responseData", response_value.v))]

enrich_mutations_with_response(cs, data) ==
    LET data_json == ToValue(data)
    IN  [i \in 1..Len(cs) |-> EnrichCall(cs[i], data_json)]

----------------------------------------------------------------------------
(* Serialize / Deserialize of MutationCall, as used by Context::insert,    *)
(* Context::get and EventData::json.                                       *)

JOptStr(o) == IF o.some THEN JStr(o.v) ELSE JNull

RECURSIVE CollectMap(_, _, _)
\* args.iter().map(|arg| (name, value)).collect::<Map<_, _>>()
CollectMap(args, i, map) ==
    IF i > Len(args) THEN map
    ELSE CollectMap(args, i + 1, MapInsert(map, args[i].name, args[i].value))

serialize_arguments_as_map(args) == JObj(CollectMap(args, 1, <<>>))

deserialize_arguments_from_map(value) ==
    [i \in 1..Len(value.o) |-> MutationArg(value.o[i].k, value.o[i].v)]

\* #[derive(Serialize)] for MutationCall: the fields in declaration order,
\* loan_id skipped when it is None.
SerializeCall(call) ==
    JObj(<<[k |-> "operation_name", v |-> JOptStr(call.operation_name)],
           [k |-> "field_name", v |-> JStr(call.field_name)]>>
         \o (IF call.loan_id.some
             THEN <<[k |-> "loan_id", v |-> JStr(call.loan_id.v)]>> ELSE <<>>)
         \o <<[k |-> "alias", v |-> JOptStr(call.alias)],
              [k |-> "arguments", v |-> serialize_arguments_as_map(call.arguments)],
              [k |-> "selected_fields",
               v |-> JArr([i \in 1..Len(call.selected_fields) |->
                              JStr(call.selected_fields[i])])]>>)

\* An Option<String> member: a missing key and null are both None.
DeOptStr(obj, key) ==
    LET m == JsonGet(obj, key)
    IN  IF m.some /\ m.v.t = "str" THEN Some(m.v.s) ELSE None

\* #[derive(Deserialize)] for MutationCall, on a value SerializeCall wrote.
DeserializeCall(obj) ==
    MutationCall(DeOptStr(obj, "operation_name"),
                 JsonGet(obj, "field_name").v.s,
                 DeOptStr(obj, "loan_id"),
                 DeOptStr(obj, "alias"),
                 deserialize_arguments_from_map(JsonGet(obj, "arguments").v),
                 LET a == JsonGet(obj, "selected_fields").v.a
                 IN  [i \in 1..Len(a) |-> a[i].s])

\* Context::insert's serde_json_bytes::to_value of the Vec<MutationCall>.
ContextValue(cs) == JArr([i \in 1..Len(cs) |-> SerializeCall(cs[i])])

\* Context::get::<_, Vec<MutationCall>>: from_value of the stored entry.
ContextGet(entry) ==
    IF entry.some
    THEN Some([i \in 1..Len(entry.v.a) |-> DeserializeCall(entry.v.a[i])])
    ELSE None

----------------------------------------------------------------------------
(* The Event Sink.                                                         *)

stream_prefix == "graphql-mutation-"

\* format!("{}{}", stream_prefix, call.field_name): the two parts in order.
StreamName(call) == <<stream_prefix, call.field_name>>

\* EventType that names the event by the field also when the operation
\* has a name.
EventTypeOfField(call) == <<"GraphQL.", call.field_name>>

\* format!("GraphQL.{}", operation_name or field_name)
EventType(call) == <<"GraphQL.", UnwrapOr(call.operation_name, call.field_name)>>

\* CallIndex of a loop that walks the list from its end.
CallIndexReversed(task) == Len(task.calls) + 1 - task.i

\* The call the loop `for call in calls` is at in a task on its i-th iteration.
CallIndex(task) == task.i

\* Uuid::new_v4(): a value no other generation yields; it is named here by
\* the task and the iteration that generated it.
NewUuid(t, task) == [task |-> t, n |-> task.i]

\* The event handed to append_to_stream for the task's current call.
EventOf(t, task) ==
    LET call == task.calls[CallIndex(task)]
    IN  [index |-> CallIndex(task),
         stream_name |-> StreamName(call),
         event_type |-> EventType(call),
         event_id |-> NewUuid(t, task),
         payload |-> SerializeCall(call)]

\* task::spawn(persist_batch(client, stream_prefix, calls)): the new task.
\* An empty list runs no iteration and returns Ok(()).
SpawnTask(cs) ==
    [calls |-> cs, i |-> 1, issued |-> <<>>,
     st |-> IF Len(cs) = 0 THEN "done" ELSE "running"]

\* AfterAppend of a loop that tries the same call again after an Err.
AfterAppendRetrying(task, result) ==
    IF result = "Ok"
    THEN [task EXCEPT !.i = @ + 1,
                      !.st = IF task.i + 1 > Len(task.calls) THEN "done" ELSE "running"]
    ELSE [task EXCEPT !.st = "running"]

\* The task once append_to_stream has returned: Ok moves the loop on (and
\* ends it after the last call), Err leaves persist_batch through `?`.
AfterAppend(task, result) ==
    IF result = "Ok"
    THEN [task EXCEPT !.i = @ + 1,
                      !.st = IF task.i + 1 > Len(task.calls) THEN "done" ELSE "running"]
    ELSE [task EXCEPT !.st = "failed"]

----------------------------------------------------------------------------
(* The inputs: parsed documents, variables and result payloads.            *)

FieldNames == {"recordLoanRequested", "createX"}
Aliases == {"a1"}
OptFieldNames == {None} \cup {Some(n) : n \in FieldNames}
OptAliases == {None} \cup {Some(a) : a \in Aliases}

ObjectField(name, value) == [name |-> name, value |-> value]

\* Values written as arguments: literals that parse and one that does not,
\* variables, and input objects with and without the loanId member.
ArgValues ==
    {AstString("L1", FALSE), AstString("L1", TRUE), AstInt("7"),
     AstVariable(Some("v")),
     AstObject(<<ObjectField(Some("loanId"), Some(AstString("L1", FALSE)))>>),
     AstObject(<<ObjectField(Some("loanId"), Some(AstVariable(Some("v")))),
                 ObjectField(Some("Score"), Some(AstInt("7")))>>),
     AstList(<<AstVariable(Some("v")), AstEnum("RED")>>)}

Argument(name, value) == [name |-> name, value |-> value]

ArgNodes ==
    {Argument(n, v) : n \in {Some("input"), Some("id"), None},
                      v \in {None} \cup {Some(x) : x \in ArgValues}}

\* The variables maps: nothing bound, v bound to a string, v bound to an object.
VariableMaps ==
    {<<>>, <<[k |-> "v", v |-> JStr("L9")]>>,
     <<[k |-> "v", v |-> JObj(<<[k |-> "loanId", v |-> JStr("L9")]>>)]>>}

Field(name, alias, arguments, selection_set) ==
    [kind |-> "Field", name |-> name, alias |-> alias,
     arguments |-> arguments, selection_set |-> selection_set]

\* A selection that is not a field: ...Name or ... on T { }.
OtherSelection(kind) ==
    [kind |-> kind, name |-> None, alias |-> None,
     arguments |-> <<>>, selection_set |-> None]

ChildFields ==
    {Field(n, a, <<>>, None) : n \in {Some("id"), None}, a \in {None, Some("key")}} \
        {Field(None, None, <<>>, None)}

ChildSelections == ChildFields \cup {OtherSelection("FragmentSpread")}

Definition(kind, operation_type, name, selection_set) ==
    [kind |-> kind, operation_type |-> operation_type, name |-> name,
     selection_set |-> selection_set]

\* mutation, query and subscription operations, the shorthand { ... } that
\* has no operation type, and fragment definitions.
DefinitionKinds ==
    {<<"OperationDefinition", "mutation">>, <<"OperationDefinition", "query">>,
     <<"OperationDefinition", "subscription">>, <<"OperationDefinition", "none">>,
     <<"FragmentDefinition", "none">>}

OptOperationNames == {None, Some("M")}

\* Fields without arguments, every combination of name and alias; the
\* parser leaves a field without a name only after an alias ("a1: }").
PlainFields ==
    {Field(n, a, <<>>, None) : n \in OptFieldNames, a \in OptAliases} \
        {Field(None, None, <<>>, None)}

PlainSelections ==
    PlainFields \cup {OtherSelection("FragmentSpread"), OtherSelection("InlineFragment")}

DefinitionsOver(selection_sets) ==
    {Definition(kt[1], kt[2], n, s) :
        kt \in DefinitionKinds, n \in OptOperationNames, s \in selection_sets}

\* Documents of one definition with up to MaxSel selections, and of two
\* definitions with up to one selection each.
ShapeDocs ==
    {<<d>> : d \in DefinitionsOver(
                {None} \cup {Some(s) : s \in SeqUpTo(PlainSelections, MaxSel)})}
    \cup
    {<<d1, d2>> : d1, d2 \in DefinitionsOver(
                {Some(s) : s \in SeqUpTo(PlainSelections, 1)})}

\* One mutation of two fields, the second over every argument list up to
\* MaxArgs ...
ArgDocs ==
    {<<Definition("OperationDefinition", "mutation", Some("M"),
                  Some(<<Field(Some("recordLoanRequested"), Some("a1"), <<>>, None),
                         Field(Some("createX"), None, args, None)>>))>> :
        args \in SeqUpTo(ArgNodes, MaxArgs)}

\* ... and over every selection set of the field.
SelectionDocs ==
    {<<Definition("OperationDefinition", "mutation", None,
                  Some(<<Field(Some("createX"), a, <<>>, s)>>))>> :
        a \in OptAliases,
        s \in {None} \cup {Some(c) : c \in SeqUpTo(ChildSelections, MaxSel)}}

\* Scalars, an enum, null, the variable v and the variable u that no
\* variables map binds.
LeafValues ==
    {AstString("L1", FALSE), AstString("L1", TRUE), AstInt("7"), AstNull,
     AstEnum("RED"), AstVariable(Some("v")), AstVariable(Some("u"))}

\* Members of a list or object: the leaves, and a list and an object that
\* hold an unresolvable member themselves.
MemberValues ==
    LeafValues
    \cup {AstList(<<AstVariable(Some("u"))>>),
          AstObject(<<ObjectField(Some("k"), Some(AstString("L1", TRUE)))>>)}

MemberFields ==
    {ObjectField(Some(n), Some(x)) : n \in {"loanId", "k"}, x \in MemberValues}

\* One mutation of one field with one argument, over every list and every
\* object of up to MaxMembers members.
ValueDocs ==
    {<<Definition("OperationDefinition", "mutation", Some("M"),
                  Some(<<Field(Some("createX"), None,
                               <<Argument(Some("input"), Some(x))>>, None)>>))>> :
        x \in {AstList(m) : m \in SeqUpTo(MemberValues, MaxMembers)}
              \cup {AstObject(m) : m \in SeqUpTo(MemberFields, MaxMembers)}}

ExtractDocs == ShapeDocs \cup ArgDocs \cup SelectionDocs \cup ValueDocs

----------------------------------------------------------------------------
(* The extractor on its own: extract_mutations applied to a document.      *)

Idle ==
    /\ context = None /\ pending_calls = None
    /\ upstream = <<>> /\ delivered = <<>> /\ tasks = <<>> /\ store = <<>>
    /\ response_data = JNull /\ enriched_calls = <<>>

InitExtract ==
    /\ query \in {Some(d) : d \in ExtractDocs}
    /\ variables \in VariableMaps
    /\ pc = "extract"
    /\ calls = <<>>
    /\ Idle

Extract ==
    /\ pc = "extract"
    /\ calls' = extract_mutations(query.v, variables)
    /\ pc' = "extracted"
    /\ UNCHANGED <<query, variables, context, pending_calls, upstream, delivered,
                   tasks, store, response_data, enriched_calls>>

NextExtract == Extract

SpecExtract == InitExtract /\ [][NextExtract]_vars

----------------------------------------------------------------------------
(* The request path of supergraph_service and the detached sink tasks.     *)

InputWithLoanId ==
    AstObject(<<ObjectField(Some("loanId"), Some(AstString("L1", FALSE)))>>)

\* Argument lists of the requests sent through the layers: an input object,
\* and one name written twice.
PipelineArgs ==
    {<<Argument(Some("input"), Some(InputWithLoanId))>>,
     <<Argument(Some("input"), Some(AstVariable(Some("v")))),
       Argument(Some("input"), Some(InputWithLoanId))>>}

PipelineFields ==
    {Field(Some(n), a, args, None) :
        n \in FieldNames, a \in OptAliases, args \in PipelineArgs}

\* Operations named M of every operation type, and the mutation without a
\* name over one field.
PipelineDocs ==
    {<<Definition("OperationDefinition", ot, Some("M"), Some(s))>> :
        ot \in {"mutation", "query", "subscription", "none"},
        s \in SeqUpTo(PipelineFields, MaxSel) \ {<<>>}}
    \cup
    {<<Definition("OperationDefinition", "mutation", None, Some(<<f>>))>> :
        f \in PipelineFields}

PipelineVariables == {<<[k |-> "v", v |-> JStr("L9")]>>}

\* One graphql::Response of the body stream.
Chunk(data, has_errors) == [data |-> data, has_errors |-> has_errors]

ResultObject == JObj(<<[k |-> "id", v |-> JStr("123")]>>)

\* Payloads under `data`: every top-level key answered (the scalar mutation
\* with a string), and no key answered.
PipelineData ==
    {JObj(<<[k |-> "recordLoanRequested", v |-> JStr("L2")],
            [k |-> "createX", v |-> ResultObject],
            [k |-> "a1", v |-> ResultObject]>>),
     JObj(<<>>)}

PipelineChunks ==
    {Chunk(Some(d), FALSE) : d \in PipelineData}
    \cup {Chunk(None, e) : e \in BOOLEAN}

Init ==
    /\ query \in {None} \cup {Some(d) : d \in PipelineDocs}
    /\ variables \in PipelineVariables
    /\ pc = "request"
    /\ calls = <<>>
    /\ Idle

\* The map_request closure.  Context::insert answers insert_result; the
\* closure unwraps it.
MapRequest(insert_result) ==
    /\ pc = "request"
    /\ LET cs == IF query.some THEN extract_mutations(query.v, variables) ELSE <<>>
       IN  /\ calls' = cs
           /\ IF cs = <<>>
              THEN pc' = "mapped" /\ context' = context
              ELSE IF insert_result = "Ok"
              THEN pc' = "mapped" /\ context' = Some(ContextValue(cs))
              ELSE pc' = "panicked" /\ context' = context
    /\ UNCHANGED <<query, variables, pending_calls, upstream, delivered, tasks,
                   store, response_data, enriched_calls>>

\* The first closure of map_future_with_request_data.
RequestData ==
    /\ pc = "mapped"
    /\ pending_calls' = ContextGet(context)
    /\ pc' = "captured"
    /\ UNCHANGED <<query, variables, calls, context, upstream, delivered, tasks,
                   store, response_data, enriched_calls>>

\* `fut.await?`: the downstream service answers with a response, whose body
\* is then wrapped, or with an error, which is handed back as it is.
Downstream(result) ==
    /\ pc = "captured"
    /\ pc' = IF result = "Ok" THEN "streaming" ELSE "failed"
    /\ UNCHANGED <<query, variables, calls, context, pending_calls, upstream,
                   delivered, tasks, store, response_data, enriched_calls>>

\* mutation_sink.persist_mutations(calls) of KurrentService.
persist_mutations(ts, cs) == Append(ts, SpawnTask(cs))

\* MappedStream that hands the batch over for every chunk, with or without
\* data.
MappedStreamEveryChunk(ts, pending, chunk) ==
    IF pending.some
    THEN persist_mutations(ts, enrich_mutations_with_response(
                                   pending.v, UnwrapOr(chunk.data, JNull)))
    ELSE ts

\* What the mapped stream's closure does to the tasks for one chunk.
MappedStream(ts, pending, chunk) ==
    IF pending.some /\ chunk.data.some
    THEN persist_mutations(ts, enrich_mutations_with_response(pending.v, chunk.data.v))
    ELSE ts

\* ClosureCalls of a closure that hands its own list to the correlator and
\* keeps what comes back.
ClosureCallsEnriched(pending, chunk) ==
    IF pending.some /\ chunk.data.some
    THEN Some(enrich_mutations_with_response(pending.v, chunk.data.v))
    ELSE pending

\* The list the closure holds after one chunk: the correlator was given
\* calls.clone(), so the captured list is as before.
ClosureCalls(pending, chunk) == pending

\* Forwarded of a closure that takes the data out of the chunk it read.
ForwardedWithoutData(chunk) == [chunk EXCEPT !.data = None]

\* The chunk the closure returns for the caller.
Forwarded(chunk) == chunk

\* The caller polls the body: the downstream stream yields a chunk, the
\* closure runs on it, and the chunk goes to the caller.
StreamChunk(chunk) ==
    /\ pc = "streaming"
    /\ Len(upstream) < MaxChunks
    /\ upstream' = Append(upstream, chunk)
    /\ tasks' = MappedStream(tasks, pending_calls, chunk)
    /\ pending_calls' = ClosureCalls(pending_calls, chunk)
    /\ delivered' = Append(delivered, Forwarded(chunk))
    /\ UNCHANGED <<query, variables, pc, calls, context, store,
                   response_data, enriched_calls>>

\* The body stream ends.
StreamEnd ==
    /\ pc = "streaming"
    /\ pc' = "done"
    /\ UNCHANGED <<query, variables, calls, context, pending_calls, upstream,
                   delivered, tasks, store, response_data, enriched_calls>>

\* The caller drops the response body before its end: the mapped stream is
\* polled no more.
CallerDrops ==
    /\ pc = "streaming"
    /\ pc' = "dropped"
    /\ UNCHANGED <<query, variables, calls, context, pending_calls, upstream,
                   delivered, tasks, store, response_data, enriched_calls>>

\* IssueAppend of a task that lives no longer than its request: no append
\* is started once the body has ended or was dropped.
IssueAppendWhileRequestLives(t) ==
    /\ t \in 1..Len(tasks)
    /\ tasks[t].st = "running"
    /\ pc \notin {"done", "dropped"}
    /\ tasks' = [tasks EXCEPT ![t].issued = Append(@, EventOf(t, tasks[t])),
                              ![t].st = "awaiting"]
    /\ UNCHANGED <<query, variables, pc, calls, context, pending_calls, upstream,
                   delivered, store, response_data, enriched_calls>>

\* persist_batch up to its await: the event of the current call is built
\* and append_to_stream is called with it.
IssueAppend(t) ==
    /\ t \in 1..Len(tasks)
    /\ tasks[t].st = "running"
    /\ tasks' = [tasks EXCEPT ![t].issued = Append(@, EventOf(t, tasks[t])),
                              ![t].st = "awaiting"]
    /\ UNCHANGED <<query, variables, pc, calls, context, pending_calls, upstream,
                   delivered, store, response_data, enriched_calls>>

\* append_to_stream returns: an accepted event is in the store.
AppendReturns(t, result) ==
    /\ t \in 1..Len(tasks)
    /\ tasks[t].st = "awaiting"
    /\ tasks' = [tasks EXCEPT ![t] = AfterAppend(@, result)]
    /\ store' = IF result = "Ok"
                THEN Append(store, tasks[t].issued[Len(tasks[t].issued)])
                ELSE store
    /\ UNCHANGED <<query, variables, pc, calls, context, pending_calls, upstream,
                   delivered, response_data, enriched_calls>>

Results == {"Ok", "Err"}

Next ==
    \/ \E r \in Results : MapRequest(r)
    \/ RequestData
    \/ \E r \in Results : Downstream(r)
    \/ \E c \in PipelineChunks : StreamChunk(c)
    \/ StreamEnd
    \/ CallerDrops
    \/ \E t \in 1..Len(tasks) : IssueAppend(t)
    \/ \E t \in 1..Len(tasks), r \in Results : AppendReturns(t, r)

Spec == Init /\ [][Next]_vars

\* The runtime polls a spawned task that can run, and a call of
\* append_to_stream comes back with Ok or Err.
TaskFairness ==
    \A t \in 1..MaxChunks :
        /\ WF_vars(IssueAppend(t))
        /\ WF_vars(\E r \in Results : AppendReturns(t, r))

SpecFair == Init /\ [][Next]_vars /\ TaskFairness

----------------------------------------------------------------------------
(* The correlator on its own: enrich_mutations_with_response applied to a  *)
(* batch as Context::get returns it and to a result payload.               *)

EnrichArgs ==
    {<<>>,
     <<Argument(Some("input"), Some(InputWithLoanId))>>,
     <<Argument(Some("id"), Some(AstInt("7")))>>}

EnrichFields ==
    {Field(Some(n), a, args, None) :
        n \in FieldNames, a \in OptAliases, args \in EnrichArgs}

\* The batches of mutations of up to MaxSel fields, stored and read back.
EnrichBatches ==
    {ContextGet(Some(ContextValue(extract_mutations(
        <<Definition("OperationDefinition", "mutation", Some("M"), Some(sel))>>,
        <<>>)))).v :
        sel \in SeqUpTo(EnrichFields, MaxSel)}

DataKeys == <<"recordLoanRequested", "createX", "a1">>

DataValues == {JStr("L2"), ResultObject, JNull}

\* The object that answers the keys of DataKeys for which f holds a value.
DataObject(f) ==
    LET present == SelectSeq(DataKeys, LAMBDA key : f[key].some)
    IN  JObj([i \in 1..Len(present) |-> [k |-> present[i], v |-> f[present[i]].v]])

\* Result payloads: objects answering any subset of the keys, and payloads
\* that are no object.
DataPool ==
    {DataObject(f) : f \in [Range(DataKeys) -> {None} \cup {Some(x) : x \in DataValues}]}
    \cup {JNull, JStr("L2"), JArr(<<JStr("L2")>>)}

\* Batches of one field selected twice, under the aliases a1 and a2.
AliasBatches ==
    {ContextGet(Some(ContextValue(extract_mutations(
        <<Definition("OperationDefinition", "mutation", Some("M"),
                     Some(<<Field(Some(n), Some("a1"), args1, None),
                            Field(Some(n), Some("a2"), args2, None)>>))>>,
        <<>>)))).v :
        n \in FieldNames, args1 \in EnrichArgs, args2 \in EnrichArgs}

AliasDataKeys == <<"a1", "a2", "createX", "recordLoanRequested">>

\* Result payloads answering any subset of the two aliases and the two
\* field names.
AliasDataPool ==
    {LET present == SelectSeq(AliasDataKeys, LAMBDA key : f[key].some)
     IN  JObj([i \in 1..Len(present) |-> [k |-> present[i], v |-> f[present[i]].v]]) :
        f \in [Range(AliasDataKeys) -> {None} \cup {Some(x) : x \in DataValues}]}

InitEnrich ==
    /\ query = None /\ variables = <<>>
    /\ pc = "correlate"
    /\ \/ calls \in EnrichBatches /\ response_data \in DataPool
       \/ calls \in AliasBatches /\ response_data \in AliasDataPool
    /\ enriched_calls = <<>>
    /\ context = None /\ pending_calls = None
    /\ upstream = <<>> /\ delivered = <<>> /\ tasks = <<>> /\ store = <<>>

Enrich ==
    /\ pc = "correlate"
    /\ enriched_calls' = enrich_mutations_with_response(calls, response_data)
    /\ pc' = "correlated"
    /\ UNCHANGED <<query, variables, calls, context, pending_calls, upstream,
                   delivered, tasks, store, response_data>>

NextEnrich == Enrich

SpecEnrich == InitEnrich /\ [][NextEnrich]_vars

----------------------------------------------------------------------------
(* Properties.                                                             *)

Terminated(task) == task.st \in {"done", "failed"}

\* C1: in persist_batch an append failure for one call does not skip the
\* remaining calls: a task that has ended has attempted the append of every
\* call of its batch.
C1_EveryCallAttempted ==
    \A t \in 1..Len(tasks) :
        Terminated(tasks[t]) => Len(tasks[t].issued) = Len(tasks[t].calls)

\* C2: a batch of N calls issues exactly N appends, one per call, each to
\* the stream stream_prefix + field_name and each with an event identifier
\* no other append carries.
C2_ExactlyNAppends ==
    \A t \in 1..Len(tasks) :
        Terminated(tasks[t]) =>
            /\ Len(tasks[t].issued) = Len(tasks[t].calls)
            /\ \A n \in 1..Len(tasks[t].issued) :
                /\ tasks[t].issued[n].stream_name
                        = <<"graphql-mutation-", tasks[t].calls[n].field_name>>
                /\ \A u \in 1..Len(tasks) : \A m \in 1..Len(tasks[u].issued) :
                        tasks[u].issued[m].event_id = tasks[t].issued[n].event_id
                            => u = t /\ m = n

\* The events of task t in the store, in the order the store accepted them.
StoredOf(t) == SelectSeq(store, LAMBDA e : e.event_id.task = t)

\* C3: the appends of one batch are issued one after the other in list
\* order: those issued are a prefix of the batch, each for the call at its
\* position, every one but the last issued has returned and been accepted,
\* and the batch's events are in the store in the batch's order, whatever
\* other batches append in between.
C3_SequentialInListOrder ==
    \A t \in 1..Len(tasks) :
        /\ Len(tasks[t].issued) <= Len(tasks[t].calls)
        /\ \A n \in 1..Len(tasks[t].issued) :
            /\ tasks[t].issued[n].index = n
            /\ tasks[t].issued[n].payload = SerializeCall(tasks[t].calls[n])
        /\ Len(StoredOf(t)) >= Len(tasks[t].issued) - 1
        /\ \A n \in 1..Len(StoredOf(t)) : StoredOf(t)[n] = tasks[t].issued[n]

\* Two batches of two calls each, their events accepted alternately.
C3_Witness ==
    /\ Len(tasks) = 2
    /\ Len(store) = 4
    /\ store[1].event_id.task = 1 /\ store[2].event_id.task = 2
    /\ store[3].event_id.task = 1 /\ store[4].event_id.task = 2
    /\ store[1].stream_name # store[3].stream_name

HasData(chunk) == chunk.data.some

\* C4: a request that captured calls and whose response delivered data has
\* handed its batch to the sink exactly once when the body has ended,
\* however many chunks the body delivered.
C4_HandedOverOnce ==
    (/\ pc = "done"
     /\ pending_calls.some
     /\ \E n \in 1..Len(delivered) : HasData(delivered[n]))
        => Len(tasks) = 1

NoMutationIn(q) ==
    q.some => \A d \in 1..Len(q.v) :
                ~(q.v[d].kind = "OperationDefinition" /\ q.v[d].operation_type = "mutation")

\* C5: for an operation text without a mutation operation nothing is
\* extracted, nothing is stored under pending_mutations, and the sink is
\* never invoked, whatever the response holds.
C5_NoMutationNoEvent ==
    NoMutationIn(query) =>
        /\ calls = <<>>
        /\ context = None
        /\ pending_calls = None
        /\ tasks = <<>>
        /\ store = <<>>

\* A query with fields whose response delivered data answering them.
C5_Witness ==
    /\ pc = "done"
    /\ query.some /\ query.v[1].operation_type = "query"
    /\ query.v[1].selection_set.v[1].name = Some("createX")
    /\ Len(delivered) = 2
    /\ \A n \in 1..2 : HasData(delivered[n]) /\ JsonGet(delivered[n].data.v, "createX").some
    /\ tasks = <<>>

\* C6: nothing in the interceptor fails the request: whatever Context::insert
\* answers, the request goes on to the downstream service.
C6_RequestNeverFails == pc # "panicked"

\* The calls of definition d of the document start after this many calls.
CallsBefore(doc, d) ==
    LET n[j \in 0..(d - 1)] ==
            IF j = 0 THEN 0
            ELSE n[j - 1] +
                 (IF /\ doc[j].kind = "OperationDefinition"
                     /\ doc[j].operation_type = "mutation"
                     /\ doc[j].selection_set.some
                  THEN Len(SelectSeq(doc[j].selection_set.v, LAMBDA x : x.kind = "Field"))
                  ELSE 0)
    IN  n[d - 1]

\* What a value written as a well-formed scalar literal or as a bound
\* variable stands for; None for every other way of writing a value.
WrittenValue(node, vs) ==
    CASE node.node = "StringValue" /\ ~node.block -> Some(JStr(node.text))
      [] node.node = "IntValue" -> Some(JNum(node.int))
      [] node.node = "Variable" /\ node.var.some /\ MapHas(vs, node.var.v) ->
            MapGet(vs, node.var.v)
      [] OTHER -> None

C8_ArgumentsRoundTrip ==
    pending_calls.some =>
        /\ Len(pending_calls.v) = Len(calls)
        /\ \A n \in 1..Len(calls) : pending_calls.v[n].arguments = calls[n].arguments

\* C9: a call whose result key (the alias when set, else the field name) is
\* no key of the result, or whose result is no object, comes out of the
\* correlation equal to what went in.
C9_NoMatchNoChange ==
    pc = "correlated" =>
        /\ Len(enriched_calls) = Len(calls)
        /\ \A n \in 1..Len(calls) :
            LET key == IF calls[n].alias.some THEN calls[n].alias.v
                       ELSE calls[n].field_name
            IN  (response_data.t # "obj" \/ ~MapHas(response_data.o, key))
                    => enriched_calls[n] = calls[n]

\* A batch of two calls, the first without a matching key and left as it
\* was, the second enriched.
C9_Witness ==
    /\ pc = "correlated"
    /\ Len(calls) = 2
    /\ response_data.t = "obj" /\ response_data.o # <<>>
    /\ ~MapHas(response_data.o, "a1")
    /\ calls[1].alias = Some("a1")
    /\ enriched_calls[1] = calls[1]
    /\ enriched_calls[2] # calls[2]

\* C10: a recordLoanRequested call whose matched result value is a string
\* has that string as loan_id after the correlation, also when the call
\* came with a loan_id from its input argument.
C10_ResultIdWins ==
    pc = "correlated" =>
        \A n \in 1..Len(calls) :
            LET key == IF calls[n].alias.some THEN calls[n].alias.v
                       ELSE calls[n].field_name
            IN  (/\ calls[n].field_name = "recordLoanRequested"
                 /\ response_data.t = "obj"
                 /\ MapHas(response_data.o, key)
                 /\ MapGet(response_data.o, key).v.t = "str")
                    => enriched_calls[n].loan_id = Some(MapGet(response_data.o, key).v.s)

\* The input carried loanId L1 and the result is the string L2.
C10_Witness ==
    /\ pc = "correlated"
    /\ Len(calls) >= 1
    /\ calls[1].field_name = "recordLoanRequested"
    /\ calls[1].loan_id = Some("L1")
    /\ enriched_calls[1].loan_id = Some("L2")

\* C11: a call whose result key is a key of the result, and for which the
\* scalar-identifier rule does not fire (the field is not
\* recordLoanRequested, or the matched value is no string), comes out of the
\* correlation with its original arguments followed by exactly one argument
\* named responseData that holds the matched value.
C11_ResponseDataAppended ==
    pc = "correlated" =>
        \A n \in 1..Len(calls) :
            LET key == IF calls[n].alias.some THEN calls[n].alias.v
                       ELSE calls[n].field_name
            IN  (/\ response_data.t = "obj"
                 /\ MapHas(response_data.o, key)
                 /\ \/ calls[n].field_name # "recordLoanRequested"
                    \/ MapGet(response_data.o, key).v.t # "str")
                    => enriched_calls[n].arguments =
                         Append(calls[n].arguments,
                                MutationArg("responseData",
                                            MapGet(response_data.o, key).v))

\* The chunks that reached the caller with data, in order: the n-th of them
\* is the one the n-th batch handed to the sink was correlated with.
DataChunks == SelectSeq(delivered, HasData)

\* The matched result value of a call is a string and the call is a
\* recordLoanRequested: the scalar-identifier rule fires.
ScalarIdMatch(call, data) ==
    LET key == IF call.alias.some THEN call.alias.v ELSE call.field_name
    IN  /\ call.field_name = "recordLoanRequested"
        /\ data.t = "obj"
        /\ MapHas(data.o, key)
        /\ MapGet(data.o, key).v.t = "str"

\* The value is an object with a string under loanId.
HoldsLoanId(value) ==
    /\ value.t = "obj"
    /\ MapHas(value.o, "loanId")
    /\ MapGet(value.o, "loanId").v.t = "str"

C14_DetachedTasksTerminate ==
    /\ [][\A t \in 1..Len(tasks') :
            t > Len(tasks) => tasks'[t].issued = <<>> /\ store' = store]_vars
    /\ \A t \in 1..MaxChunks :
            (Len(tasks) >= t) ~> (Len(tasks) >= t /\ Terminated(tasks[t]))

\* The caller dropped the body after a batch was handed over, and the task
\* of that batch has not attempted any append yet.
C14_Witness ==
    /\ pc = "dropped"
    /\ Len(tasks) >= 1
    /\ tasks[1].st = "running"
    /\ tasks[1].issued = <<>>
    /\ Len(tasks[1].calls) = 2

\* The tree lacks a node the grammar requires, which the parser reports as
\* a syntax error: a field without a name, an argument without a name or
\* without a value.
MissingNodeIn(doc) ==
    \E d \in 1..Len(doc) :
        /\ doc[d].selection_set.some
        /\ \E f \in 1..Len(doc[d].selection_set.v) :
            LET sel == doc[d].selection_set.v[f]
            IN  /\ sel.kind = "Field"
                /\ \/ ~sel.name.some
                   \/ \E a \in 1..Len(sel.arguments) :
                        ~sel.arguments[a].name.some \/ ~sel.arguments[a].value.some

\* C15: for an operation text that the parser reports as syntactically
\* invalid, extract_mutations returns the empty list.
C15_InvalidTextNoCalls ==
    (pc = "extracted" /\ MissingNodeIn(query.v)) => calls = <<>>

\* C16: every call that extract_mutations returns has a field_name that is
\* not empty.
C16_FieldNameNeverEmpty ==
    pc = "extracted" => \A n \in 1..Len(calls) : calls[n].field_name # ""

\* The member is an unbound variable or a literal that serde_json does not
\* parse (a block string).
Unresolvable(member, vs) ==
    \/ member.node = "Variable" /\ ~MapHas(vs, member.var.v)
    \/ member.node = "StringValue" /\ member.block

\* What a member of MemberValues is to become in the resolved value.
MemberJson(member, vs) ==
    IF Unresolvable(member, vs) THEN JNull
    ELSE CASE member.node = "StringValue" -> JStr(member.text)
           [] member.node = "IntValue" -> JNum(member.int)
           [] member.node = "NullValue" -> JNull
           [] member.node = "EnumValue" -> JStr(member.enum)
           [] member.node = "Variable" -> MapGet(vs, member.var.v).v
           [] member.node = "ListValue" -> JArr(<<JNull>>)
           [] member.node = "ObjectValue" -> JObj(<<[k |-> "k", v |-> JNull]>>)

\* The single argument of the single field of a document of ValueDocs.
WrittenInput == query.v[1].selection_set.v[1].arguments[1].value.v

\* C17: a list resolves to a list of the same length with every member at
\* its position, an unresolvable member as null; an object resolves to an
\* object that has every written key, in the order of writing, the value
\* under a key being that of the last member written with it, null when that
\* member is unresolvable.
C17_UnresolvableMemberIsNull ==
    (pc = "extracted" /\ query.v \in ValueDocs) =>
        LET resolved == calls[1].arguments[1].value
        IN  /\ WrittenInput.node = "ListValue" =>
                /\ resolved.t = "arr"
                /\ Len(resolved.a) = Len(WrittenInput.values)
                /\ \A i \in 1..Len(WrittenInput.values) :
                     resolved.a[i] = MemberJson(WrittenInput.values[i], variables)
            /\ WrittenInput.node = "ObjectValue" =>
                LET fields == WrittenInput.fields
                    last(i) == \A j \in (i + 1)..Len(fields) :
                                   fields[j].name # fields[i].name
                    first(i) == \A j \in 1..(i - 1) :
                                   fields[j].name # fields[i].name
                    firsts == SelectSeq([i \in 1..Len(fields) |-> i], first)
                IN  /\ resolved.t = "obj"
                    /\ Len(resolved.o) = Len(firsts)
                    /\ \A n \in 1..Len(firsts) :
                         resolved.o[n].k = fields[firsts[n]].name.v
                    /\ \A i \in 1..Len(fields) :
                         last(i) => MapGet(resolved.o, fields[i].name.v).v =
                                      MemberJson(fields[i].value.v, variables)

\* [$u, RED] with nothing bound resolves to [null, "RED"].
C17_Witness ==
    /\ pc = "extracted"
    /\ query.v \in ValueDocs
    /\ WrittenInput = AstList(<<AstVariable(Some("u")), AstEnum("RED")>>)
    /\ calls[1].arguments[1].value = JArr(<<JNull, JStr("RED")>>)

RECURSIVE IsJson(_)

\* The value is a JSON tree down to its leaves: no node of the operation
\* text is left in it.
IsJson(value) ==
    /\ "t" \in DOMAIN value
    /\ CASE value.t \in {"null", "str", "num", "bool"} -> TRUE
         [] value.t = "arr" -> \A i \in 1..Len(value.a) : IsJson(value.a[i])
         [] value.t = "obj" -> \A i \in 1..Len(value.o) : IsJson(value.o[i].v)
         [] OTHER -> FALSE

\* C18: an argument written with a variable that the variables map does
\* not bind is in the extracted call, at its position and under its name,
\* with the value null; no argument and no call is left out, and every
\* value an extracted call holds is plain JSON.
C18_UnboundVariableIsNull ==
    pc = "extracted" =>
        /\ \A n \in 1..Len(calls) :
             \A a \in 1..Len(calls[n].arguments) :
                 IsJson(calls[n].arguments[a].value)
        /\ query.v \in ArgDocs =>
             LET written == query.v[1].selection_set.v[2].arguments
             IN  /\ Len(calls) = 2
                 /\ Len(calls[2].arguments) = Len(written)
                 /\ \A a \in 1..Len(written) :
                      (/\ written[a].value.some
                       /\ written[a].value.v.node = "Variable"
                       /\ ~MapHas(variables, written[a].value.v.var.v))
                          => /\ calls[2].arguments[a].name =
                                  UnwrapOr(written[a].name, "")
                             /\ calls[2].arguments[a].value = JNull

\* createX(id: $v, input: "L1") with nothing bound: two arguments, the
\* first null.
C18_Witness ==
    /\ pc = "extracted"
    /\ query.v \in ArgDocs
    /\ variables = <<>>
    /\ query.v[1].selection_set.v[2].arguments =
         <<Argument(Some("id"), Some(AstVariable(Some("v")))),
           Argument(Some("input"), Some(AstString("L1", FALSE)))>>
    /\ calls[2].arguments =
         <<MutationArg("id", JNull), MutationArg("input", JStr("L1"))>>

\* C19: the event type of every event handed to append_to_stream, and so of
\* every event in the store, is "GraphQL." followed by the operation_name
\* of its call when the call has one, and by its field_name otherwise.
C19_EventTypeIsPrefixDotName ==
    /\ \A t \in 1..Len(tasks) :
         \A m \in 1..Len(tasks[t].issued) :
             LET event == tasks[t].issued[m]
                 call == tasks[t].calls[event.index]
             IN  event.event_type =
                   <<"GraphQL.",
                     IF call.operation_name.some THEN call.operation_name.v
                     ELSE call.field_name>>
    /\ \A e \in 1..Len(store) :
         \E t \in 1..Len(tasks) :
             \E m \in 1..Len(tasks[t].issued) : store[e] = tasks[t].issued[m]

\* The store holds the event of a createX call of a mutation without a
\* name, of type GraphQL.createX.
C19_Witness ==
    /\ Len(store) >= 1
    /\ store[1].event_type = <<"GraphQL.", "createX">>
    /\ tasks[1].calls[1].operation_name = None
    /\ tasks[1].calls[1].field_name = "createX"

\* The number of arguments named responseData of a call.
ResponseDataCount(call) ==
    Len(SelectSeq(call.arguments, LAMBDA arg : arg.name = "responseData"))

\* C20: once captured, the list the response closure holds is the batch as
\* map_request stored it, however many chunks were correlated; the batch of
\* the t-th task is that list enriched by the t-th chunk with data alone,
\* and each of its calls has at most one responseData argument more than
\* the captured call.
C20_SnapshotStable ==
    pc \in {"captured", "streaming", "done", "dropped", "failed"} =>
        /\ pending_calls = ContextGet(context)
        /\ context = IF calls = <<>> THEN None ELSE Some(ContextValue(calls))
        /\ ~pending_calls.some => tasks = <<>>
        /\ pending_calls.some =>
            /\ Len(tasks) = Len(DataChunks)
            /\ \A t \in 1..Len(tasks) :
                /\ tasks[t].calls =
                     enrich_mutations_with_response(pending_calls.v,
                                                    DataChunks[t].data.v)
                /\ \A n \in 1..Len(tasks[t].calls) :
                     ResponseDataCount(tasks[t].calls[n])
                         <= ResponseDataCount(pending_calls.v[n]) + 1

\* Two chunks with data were correlated: each of the two batches handed
\* over has the createX call with exactly one responseData argument, and
\* the captured call has none.
C20_Witness ==
    /\ Len(tasks) = 2
    /\ pending_calls.some
    /\ pending_calls.v[1].field_name = "createX"
    /\ ResponseDataCount(pending_calls.v[1]) = 0
    /\ ResponseDataCount(tasks[1].calls[1]) = 1
    /\ ResponseDataCount(tasks[2].calls[1]) = 1

\* C21: the correlation returns as many calls as it was given, in the same
\* order; each has the operation_name, field_name, alias and
\* selected_fields it had, and its arguments are the original ones followed
\* by at most one more, which is named responseData.  Only loan_id and that
\* one argument can differ.
C21_CorrelationFrame ==
    pc = "correlated" =>
        /\ Len(enriched_calls) = Len(calls)
        /\ \A n \in 1..Len(calls) :
            LET before == calls[n]
                after == enriched_calls[n]
            IN  /\ after.operation_name = before.operation_name
                /\ after.field_name = before.field_name
                /\ after.alias = before.alias
                /\ after.selected_fields = before.selected_fields
                /\ Len(after.arguments) \in
                     {Len(before.arguments), Len(before.arguments) + 1}
                /\ SubSeq(after.arguments, 1, Len(before.arguments)) =
                     before.arguments
                /\ Len(after.arguments) = Len(before.arguments) + 1 =>
                     after.arguments[Len(after.arguments)].name = "responseData"

\* A batch of two: the recordLoanRequested call came out with the loan_id
\* of the result, the createX call with its one argument followed by
\* responseData.
C21_Witness ==
    /\ pc = "correlated"
    /\ Len(calls) = 2
    /\ calls[1].field_name = "recordLoanRequested"
    /\ calls[1].loan_id # enriched_calls[1].loan_id
    /\ calls[2].field_name = "createX"
    /\ Len(calls[2].arguments) = 1
    /\ Len(enriched_calls[2].arguments) = 2
    /\ enriched_calls[2].arguments[1] = calls[2].arguments[1]

\* C22: a call with an alias is enriched from the result under its alias,
\* and is left as it was when the result has no such key, whatever the
\* result holds under its field name; a call without an alias is enriched
\* from the result under its field name.
C22_AliasIsTheKey ==
    (pc = "correlated" /\ response_data.t = "obj") =>
        \A n \in 1..Len(calls) :
            LET call == calls[n]
                after == enriched_calls[n]
                key == IF call.alias.some THEN call.alias.v ELSE call.field_name
                found == MapHas(response_data.o, key)
                value == MapGet(response_data.o, key).v
            IN  /\ ~found => after = call
                /\ (found /\ call.field_name # "recordLoanRequested") =>
                     after.arguments[Len(after.arguments)] =
                        MutationArg("responseData", value)
                /\ (found /\ call.field_name = "recordLoanRequested"
                          /\ value.t = "str") =>
                     after.loan_id = Some(value.s)

\* createX selected as a1 and as a2: the first call carries the string
\* answered under a1, the second the object answered under a2, and what
\* the result holds under createX went to neither.
C22_Witness ==
    /\ pc = "correlated"
    /\ Len(calls) = 2
    /\ calls[1].field_name = "createX" /\ calls[1].alias = Some("a1")
    /\ calls[2].field_name = "createX" /\ calls[2].alias = Some("a2")
    /\ response_data.t = "obj"
    /\ MapHas(response_data.o, "createX")
    /\ MapGet(response_data.o, "createX").v = JNull
    /\ Len(enriched_calls[1].arguments) >= 1
    /\ Len(enriched_calls[2].arguments) >= 1
    /\ enriched_calls[1].arguments[Len(enriched_calls[1].arguments)] =
         MutationArg("responseData", JStr("L2"))
    /\ enriched_calls[2].arguments[Len(enriched_calls[2].arguments)] =
         MutationArg("responseData", ResultObject)

\* C23: within one task, that is one submission of a batch, no call is
\* handed to append_to_stream twice, whether its append came back with Ok
\* or with Err: the appends issued are for pairwise different calls of the
\* batch, and a task that failed issues no further one.
C23_SingleAttemptPerCall ==
    /\ \A t \in 1..Len(tasks) :
        /\ Len(tasks[t].issued) <= Len(tasks[t].calls)
        /\ \A m1 \in 1..Len(tasks[t].issued) :
             \A m2 \in 1..Len(tasks[t].issued) :
                 tasks[t].issued[m1].index = tasks[t].issued[m2].index => m1 = m2
        /\ \A m \in 1..Len(tasks[t].issued) :
             tasks[t].issued[m].payload =
                 SerializeCall(tasks[t].calls[tasks[t].issued[m].index])

\* The request is over and the task of a batch of two has ended: its first
\* append failed, and that one append is all it issued.
C23_Witness ==
    /\ pc = "done"
    /\ Len(tasks) = 1
    /\ Len(tasks[1].calls) = 2
    /\ tasks[1].st = "failed"
    /\ Len(tasks[1].issued) = 1
    /\ store = <<>>

\* C24: a batch is handed to the sink only in a step that delivers a chunk
\* whose data is present, for a request with captured calls; as long as no
\* chunk with data was delivered there is no task, no append and no event.
C24_NoDataNoPersistence ==
    /\ [][Len(tasks') > Len(tasks) =>
            /\ pending_calls.some
            /\ Len(delivered') = Len(delivered) + 1
            /\ HasData(delivered'[Len(delivered')])
            /\ Len(tasks') = Len(tasks) + 1]_vars
    /\ [](DataChunks = <<>> => tasks = <<>> /\ store = <<>>)

\* A request with captured calls whose body was a single chunk with errors
\* and no data has ended, and no task exists.
C24_Witness ==
    /\ pc = "done"
    /\ pending_calls.some
    /\ delivered = <<Chunk(None, TRUE)>>
    /\ tasks = <<>>
    /\ store = <<>>

\* C25: the chunks the caller has received are the chunks the downstream
\* stream has yielded, the same in content, order and number, for requests
\* with and without captured calls and whatever became of the tasks.
C25_ResponseUnchanged ==
    /\ delivered = upstream
    /\ pc \in {"request", "mapped", "captured", "failed", "panicked"} =>
         delivered = <<>>

\* Two chunks, the first with data, went through for a request with
\* captured calls; the task spawned for the first has failed.
C25_Witness ==
    /\ pc = "done"
    /\ pending_calls.some
    /\ Len(upstream) = 2
    /\ HasData(upstream[1])
    /\ upstream[2] = Chunk(None, TRUE)
    /\ delivered = upstream
    /\ Len(tasks) = 1
    /\ tasks[1].st = "failed"

====
